---- MODULE Spec2Model ----
(***************************************************************************)
(* Anharmonic scattering-rate engine of ballistico/anharmoniccontroller.py *)
(* as a state machine: the broadening kernels, the triplet selection of    *)
(* calculate_single_gamma, the checkpointed loop of calculate_gamma with   *)
(* its progress files, and the occupation / heat-capacity cache.           *)
(*                                                                         *)
(* Numbers.  Floats are carried as integers in fixed point.  Frequencies   *)
(* are whole THz; angular quantities (omegas, 2*pi*sigma) are counted in   *)
(* units of 2*pi THz, so that omegas[nu] and frequencies[nu] are the same  *)
(* integer; occupations, kernel densities and exponentials are counted in  *)
(* units of 1/FixedPoint.  The text of a progress file is modelled by the  *)
(* number each field denotes once formatted: '%i' is exact, '%.8e' keeps   *)
(* FMT_PRECISION + 1 significant decimal digits.                           *)
(***************************************************************************)
EXTENDS Integers, Sequences, FiniteSets, TLC

\* ------------------------------------------------------------------ bounds
\* Largest number of wavevectors of a mesh (nptk = nx * ny * nz).
MaxNptk == 2
\* Largest frequency of a mode, in THz.
MaxFreq == 2
\* Number of calculate_gamma invocations in one behaviour.
MaxCalls == 2
\* Fixed-point unit: occupations, kernel densities and exp() count 1/FixedPoint.
FixedPoint == 100
\* Number of terms of the exponential series.
ExpTerms == 12
\* |scaled_potential|^2 of the one strongly coupled triplet (see Vsq).
HotCoupling == 1000003
\* Largest value an accumulator entry may take in the model (machine integers).
MaxValue == 2000000000
\* Largest temperature and largest fixed width sigma_in.
MaxTemp == 1
MaxSigma == 1
\* Most trailing lines of a progress file a terminated process leaves unwritten.
MaxLost == 1
\* Group velocity of branch mu along the first axis: mu * VelocityStep.
VelocityStep == 3
\* Longest side and largest number of wavevectors of a mesh of SpecMesh.
MaxSide == 3
MaxMeshNptk == 4

\* ------------------------------------------------------- program constants
DELTA_THRESHOLD == 2
IS_DELTA_CORRECTION_ENABLED == FALSE
\* Precision of the '%.8e' fields written by np.savetxt.
FMT_PRECISION == 8
\* 1/sqrt(pi) and 1/pi, per mille.
InvSqrtPi == 564
InvPi == 318
\* erf(DELTA_THRESHOLD / sqrt(2)) and corrections[DELTA_THRESHOLD], per mille.
GaussCorrection == 954
LorentzCorrection == 844
PerMille == 10 * FixedPoint
\* n_modes = n_particles * 3
Dim == 3
\* phonons.frequency_threshold: a mode is physical iff its frequency exceeds it.
frequency_threshold == 0
\* atoms: the cell of the modelled system holds one atom.
Atoms == {"Si"}
\* n_particles = atoms.positions.shape[0]
n_particles == Cardinality(Atoms)
\* The kernel names calculate_gamma dispatches on.
Kernels == {"gauss", "lorentz", "triangle"}

\* ----------------------------------------------------------------- helpers
None == << >>

Abs(x) == IF x < 0 THEN -x ELSE x

\* The integer part of a square root.
ISqrt(n) == CHOOSE r \in 0 .. n : r * r <= n /\ n < (r + 1) * (r + 1)

Min(a, b) == IF a < b THEN a ELSE b

\* A decimal number without its last digit.
DropDigit(v) == IF v < 0 THEN -((-v) \div 10) ELSE v \div 10

RECURSIVE Pow10(_)
Pow10(n) == IF n <= 0 THEN 1 ELSE 10 * Pow10(n - 1)

RECURSIVE NumDigits(_)
NumDigits(v) == IF v < 10 THEN 1 ELSE 1 + NumDigits(v \div 10)

RECURSIVE SumSeq(_)
SumSeq(s) == IF s = <<>> THEN 0 ELSE Head(s) + SumSeq(Tail(s))

\* exp(p / q) in units of 1/FixedPoint, by its series: term_i = term_(i-1) * x / i.
RECURSIVE ExpSeries(_, _, _, _)
ExpSeries(p, q, i, term) ==
    IF i > ExpTerms \/ term = 0 THEN 0
    ELSE term + ExpSeries(p, q, i + 1, (term * p) \div (q * (i + 1)))

Exp(p, q) == ExpSeries(p, q, 0, FixedPoint)

\* exp(-p / q) in units of 1/FixedPoint.
ExpNeg(p, q) == (FixedPoint * FixedPoint) \div Exp(p, q)

\* -------------------------------------------------------------- the kernels
\* gaussian_delta([delta_energy, sigma])
gaussian_delta(delta_energy, sigma) ==
    LET correction == IF IS_DELTA_CORRECTION_ENABLED THEN GaussCorrection ELSE PerMille
        gaussian == (InvSqrtPi * ExpNeg(delta_energy * delta_energy, sigma * sigma))
                        \div (PerMille * sigma)
    IN  (gaussian * PerMille) \div correction

\* triangular_delta([delta_energy, deltaa])
triangular_delta(delta_energy, deltaa) ==
    LET de == Abs(delta_energy)
        da == Abs(deltaa)
    IN  IF de < da THEN (FixedPoint * (da - de)) \div (da * da) ELSE 0

\* lorentzian_delta([delta_energy, gamma]):
\* 1/pi * 1/2 * gamma / (delta^2 + (gamma/2)^2) = (1/pi) * 2 gamma / (4 delta^2 + gamma^2)
lorentzian_delta(delta_energy, gamma_) ==
    LET correction == IF IS_DELTA_CORRECTION_ENABLED THEN LorentzCorrection ELSE PerMille
        lorentzian == (InvPi * FixedPoint * 2 * gamma_)
                        \div (PerMille * (4 * delta_energy * delta_energy + gamma_ * gamma_))
    IN  (lorentzian * PerMille) \div correction

\* The dispatch of lines 339-344; a name outside Kernels binds nothing.
broadening_function(broadening, delta_energy, width) ==
    CASE broadening = "gauss" -> gaussian_delta(delta_energy, width)
      [] broadening = "lorentz" -> lorentzian_delta(delta_energy, width)
      [] broadening = "triangle" -> triangular_delta(delta_energy, width)

\* ------------------------------------------------------------------ the mesh
nptk_of(ks) == ks[1] * ks[2] * ks[3]

\* np.unravel_index(index, k_size, order='C')
unravel_index(index, ks) ==
    << index \div (ks[2] * ks[3]), (index \div ks[3]) % ks[2], index % ks[3] >>

\* np.ravel_multi_index(i, k_size, order='C', mode='wrap')
ravel_multi_index_wrap(i, ks) ==
    ((i[1] % ks[1]) * ks[2] + (i[2] % ks[2])) * ks[3] + (i[3] % ks[3])

\* Mutation of kpp_mapping: the sign of the process is ignored, kpp = k + kp.
kpp_mapping_sum(is_plus, index_k, index_kp, ks) ==
    ravel_multi_index_wrap([c \in 1 .. Dim |->
                                unravel_index(index_k, ks)[c] + unravel_index(index_kp, ks)[c]],
                           ks)

\* index_kpp_vec of lines 321-325: the kpp wavevector of every kp, for bra k.
kpp_mapping(is_plus, index_k, index_kp, ks) ==
    LET i_k == unravel_index(index_k, ks)
        i_kp == unravel_index(index_kp, ks)
        sign == is_plus * 2 - 1
    IN  ravel_multi_index_wrap(
            << i_k[1] + sign * i_kp[1], i_k[2] + sign * i_kp[2], i_k[3] + sign * i_kp[3] >>, ks)

\* '%.8e': the number the field denotes keeps FMT_PRECISION + 1 significant
\* digits, rounded to nearest, ties to even.
FormatE(v) ==
    LET a == Abs(v)
        drop == NumDigits(a) - (FMT_PRECISION + 1)
        unit == Pow10(drop)
        q == a \div unit
        r == a % unit
        up == (2 * r > unit) \/ (2 * r = unit /\ q % 2 = 1)
        m == IF up THEN (q + 1) * unit ELSE q * unit
    IN  IF drop <= 0 THEN v ELSE IF v < 0 THEN -m ELSE m


\* ------------------------------------------------------------------- state
VARIABLES
    \* the phonons object: inputs of calculate_gamma, fixed during a behaviour
    k_size,             \* phonons.kpts, the mesh <<nx, ny, nz>>
    frequencies,        \* phonons.frequencies, by flat mode index nu
    temperature,        \* phonons.temperature (in units of 1/KELVINTOTHZ)
    is_classic,         \* phonons.is_classic
    broadening_shape,   \* phonons.broadening_shape
    sigma_in,           \* phonons.sigma_in: None, or <<width>> for a fixed width
    density,            \* phonons.occupations, by flat mode index nu
    hot,                \* the strongly coupled triplet of third_order, or <<>>
    \* the accumulators calculate_gamma writes on the phonons object
    gamma,              \* phonons._gamma
    ps,                 \* phonons._ps
    gamma_tensor,       \* phonons._gamma_tensor: [created, t]
    \* the progress files, by is_plus (1 and 0): [exists, lines, flushed]
    progress,
    \* the locals of the running calculate_gamma
    pc,                 \* "idle", "open", "loop", "done", "error", "killed"
    is_gamma_tensor_enabled,
    is_plus,
    file,               \* TRUE iff the local `file` holds an open handle
    read_nu,
    initial,            \* <<initial_k, initial_mu>>
    index_k,
    mu,
    error,              \* the exception that ended the invocation, or "none";
                        \* "ValueError (broadcast)" is the ValueError of numpy's broadcasting
    \* history
    calls,              \* invocations started so far
    previous,           \* what the invocation before this one returned, if it returned
    evaluated,          \* <<is_plus, nu>> of the bra modes this invocation evaluated
    interrupts,         \* how earlier invocations ended: <<>> or a sequence of cuts
    \* the controller's cached fields
    _occupations,       \* self._occupations: None or an array
    _c_v,               \* self._c_v: None or an array
    disk,               \* occupations.npy and c_v.npy of the controller's folder
    returned,           \* what the last read of a cached field returned
    raised,             \* the exception the last cache operation raised, or "none"
    last_read           \* the field last read, whether it was neither held nor on disk,
                        \* and where its value was found: "memory", "disk" or "none"

inputs == << k_size, frequencies, temperature, is_classic, broadening_shape, sigma_in,
            density, hot >>
accumulators == << gamma, ps, gamma_tensor >>
locals == << pc, is_gamma_tensor_enabled, is_plus, file, read_nu, initial, index_k, mu, error >>
history == << calls, previous, evaluated, interrupts >>
cache == << _occupations, _c_v, disk, returned, raised, last_read >>
vars == << inputs, accumulators, progress, locals, history, cache >>

nptk == nptk_of(k_size)
n_modes == n_particles * Dim
n_phonons == nptk * n_modes
Modes == 0 .. (n_phonons - 1)

\* omegas = 2 * np.pi * frequencies, in units of 2*pi THz
omegas(nu) == frequencies[nu]

\* np.ravel_multi_index([index_k, mu], [nptk, n_modes])
nu_of(k, m) == k * n_modes + m

\* ------------------------------------------------------------- occupations
\* The equilibrium occupation of a mode (lines 168-178), in units of 1/FixedPoint.
occupation(frequency, temp, classic) ==
    IF frequency > frequency_threshold
    THEN IF classic = FALSE
         THEN (FixedPoint * FixedPoint) \div (Exp(frequency, temp) - FixedPoint)
         ELSE (FixedPoint * temp) \div frequency
    ELSE 0

\* The occupation field the phonons object holds for its frequencies,
\* temperature and statistics (read as `density` on line 260).
occupations_of(freqs, temp, classic) ==
    [nu \in DOMAIN freqs |-> occupation(freqs[nu], temp, classic)]

\* ------------------------------------------------- calculate_single_gamma
\* phonons.velocities of a mode and the inverse cell of the replicated
\* structure: branch mu moves along the first axis, the cell is the unit cube.
velocities(nu) == [c \in 1 .. Dim |-> IF c = 1 THEN VelocityStep * (nu % n_modes) ELSE 0]
cell_inv == [j \in 1 .. Dim |-> [c \in 1 .. Dim |-> IF j = c THEN 1 ELSE 0]]

\* calculate_broadening (lines 22-27): delta_k = cellinv / k_size, and
\* sqrt(sum_j (sum_c velocity[c] * delta_k[j][c])^2 / 6); the divisions by
\* k_size are taken out of the sums as the division by nptk_of(ks)^2.
calculate_broadening(velocity, cellinv, ks) ==
    LET projected == [j \in 1 .. Dim |->
                        SumSeq([c \in 1 .. Dim |->
                                    velocity[c] * cellinv[j][c] * (nptk_of(ks) \div ks[c])])]
        squares == SumSeq([j \in 1 .. Dim |-> projected[j] * projected[j]])
    IN  ISqrt(squares \div (6 * nptk_of(ks) * nptk_of(ks)))

\* sigma_small of lines 346-352 for one triplet: the width of the pair
\* (kp, mup), (kpp, mupp) when none is configured, the configured one otherwise.
sigma_small(plus, k, kp, mup, mupp) ==
    IF sigma_in = None
    THEN LET kpp == kpp_mapping(plus, k, kp, k_size)
         IN  calculate_broadening(
                [c \in 1 .. Dim |-> velocities(nu_of(kp, mup))[c]
                                      - velocities(nu_of(kpp, mupp))[c]],
                cell_inv, k_size)
    ELSE sigma_in[1]

\* omegas_difference[index_kp, mup, mupp] of lines 81-82
omegas_difference(plus, k, m, kp, mup, mupp) ==
    LET second_sign == plus * 2 - 1
        kpp == kpp_mapping(plus, k, kp, k_size)
    IN  Abs(omegas(nu_of(k, m)) + second_sign * omegas(nu_of(kp, mup)) - omegas(nu_of(kpp, mupp)))

\* Mutation of condition: the energy window is one width wider.
condition_wider(plus, k, m, kp, mup, mupp) ==
    /\ omegas_difference(plus, k, m, kp, mup, mupp)
            < (DELTA_THRESHOLD + 1) * sigma_small(plus, k, kp, mup, mupp)
    /\ frequencies[nu_of(kp, mup)] > frequency_threshold
    /\ frequencies[nu_of(kpp_mapping(plus, k, kp, k_size), mupp)] > frequency_threshold

\* condition[index_kp, mup, mupp] of lines 84-86
condition(plus, k, m, kp, mup, mupp) ==
    /\ omegas_difference(plus, k, m, kp, mup, mupp)
            < DELTA_THRESHOLD * sigma_small(plus, k, kp, mup, mupp)
    /\ frequencies[nu_of(kp, mup)] > frequency_threshold
    /\ frequencies[nu_of(kpp_mapping(plus, k, kp, k_size), mupp)] > frequency_threshold

\* interactions = np.array(np.where(condition)).T: the surviving <<kp, mup, mupp>>
\* in row-major order
interactions(plus, k, m) ==
    LET cube == [c \in 1 .. (nptk * n_modes * n_modes) |->
                    << (c - 1) \div (n_modes * n_modes),
                       ((c - 1) \div n_modes) % n_modes,
                       (c - 1) % n_modes >>]
    IN  SelectSeq(cube, LAMBDA t : condition(plus, k, m, t[1], t[2], t[3]))

\* The length two one-dimensional shapes broadcast to, or -1 when they do not.
broadcast(a, b) == IF a = b THEN a ELSE IF a = 1 THEN b ELSE IF b = 1 THEN a ELSE -1

\* Line 49 with one width per element: delta_energy[mask] has one entry per
\* element inside its support, deltaa one per element; the right-hand side
\* must broadcast, and must fit the masked entries of `out`.
triangular_delta_fits(delta_energy, deltaa) ==
    LET n == Len(deltaa)
        inside == Cardinality({i \in 1 .. n : Abs(delta_energy[i]) < Abs(deltaa[i])})
        rhs == broadcast(inside, n)
    IN  rhs # -1 /\ (rhs = inside \/ rhs = 1)

\* The call of lines 112-114 raises: the kernel is the triangular one, the
\* widths come one per triplet and the assignment of line 49 does not fit.
broadening_raises(plus, k, m) ==
    LET found == interactions(plus, k, m)
    IN  /\ broadening_shape = "triangle"
        /\ sigma_in = None
        /\ found # << >>
        /\ ~triangular_delta_fits(
                [i \in 1 .. Len(found) |->
                    omegas_difference(plus, k, m, found[i][1], found[i][2], found[i][3])],
                [i \in 1 .. Len(found) |->
                    sigma_small(plus, k, found[i][1], found[i][2], found[i][3])])

\* Mutation of dirac_delta: the plus process takes the weight of the minus one.
dirac_delta_minus_weight(plus, k, m, kp, mup, mupp) ==
    LET kpp == kpp_mapping(plus, k, kp, k_size)
        n_p == density[nu_of(kp, mup)]
        n_pp == density[nu_of(kpp, mupp)]
        weight == (FixedPoint + n_p + n_pp) \div 2
        scaled == weight \div (omegas(nu_of(kp, mup)) * omegas(nu_of(kpp, mupp)))
    IN  scaled * broadening_function(broadening_shape,
                                     omegas_difference(plus, k, m, kp, mup, mupp),
                                     sigma_small(plus, k, kp, mup, mupp))

\* dirac_delta of one triplet, lines 99-114
dirac_delta(plus, k, m, kp, mup, mupp) ==
    LET kpp == kpp_mapping(plus, k, kp, k_size)
        n_p == density[nu_of(kp, mup)]
        n_pp == density[nu_of(kpp, mupp)]
        weight == IF plus = 1 THEN n_p - n_pp ELSE (FixedPoint + n_p + n_pp) \div 2
        scaled == weight \div (omegas(nu_of(kp, mup)) * omegas(nu_of(kpp, mupp)))
    IN  scaled * broadening_function(broadening_shape,
                                     omegas_difference(plus, k, m, kp, mup, mupp),
                                     sigma_small(plus, k, kp, mup, mupp))

\* |scaled_potential[index_kp, mup, mupp]|^2 of lines 116-128: the contraction
\* of third_order with the eigenvectors and phases, an input of the model.  One
\* triplet (hot) may be strongly coupled; the others are weakly coupled.
Vsq(plus, nu, nup, nupp) ==
    IF hot = << plus, nu, nup, nupp >> THEN HotCoupling ELSE 1 + ((nup + nupp) % 2)

\* pot_times_dirac of one triplet, lines 128-132
pot_times_dirac(plus, k, m, kp, mup, mupp) ==
    LET kpp == kpp_mapping(plus, k, kp, k_size)
        scaled_potential == Vsq(plus, nu_of(k, m), nu_of(kp, mup), nu_of(kpp, mupp))
    IN  ((scaled_potential * dirac_delta(plus, k, m, kp, mup, mupp))
            \div omegas(nu_of(k, m))) \div nptk

\* calculate_single_gamma: one record per surviving triplet, in order; the
\* empty sequence stands for the None it returns when nothing survives.
calculate_single_gamma(plus, k, m) ==
    LET found == interactions(plus, k, m)
    IN  [i \in 1 .. Len(found) |->
            LET kp == found[i][1]
                mup == found[i][2]
                mupp == found[i][3]
            IN  [index_kp |-> kp, mup |-> mup,
                 index_kpp |-> kpp_mapping(plus, k, kp, k_size), mupp |-> mupp,
                 pot_times_dirac |-> pot_times_dirac(plus, k, m, kp, mup, mupp),
                 dirac |-> dirac_delta(plus, k, m, kp, mup, mupp)]]


\* ------------------------------------------------------- the progress files
\* A progress file: whether it exists, the path it was created at, its lines
\* (each the sequence of the numbers np.fromstring reads from it), how many of
\* them have reached the disk, and whether its last line ends with a newline.
NoFile == [exists |-> FALSE, name |-> << >>, lines |-> << >>, flushed |-> 0,
           newline |-> TRUE]

\* Mutation of progress_filename: the temperature is part of the path.
progress_filename_by_temperature(plus) ==
    [folder |-> << sigma_in, temperature >>, label |-> plus]

\* lines 224-226 and 236: the path of the progress file of one pass, made of
\* the folder of the phonons (one and the same throughout), the sub-folder of a
\* fixed width when there is one, and the label of the process type.
progress_filename(plus) ==
    [folder |-> IF sigma_in # None THEN << "sigma_in", sigma_in[1] >> ELSE << >>,
     label |-> plus]

\* open(progress_filename) (lines 238 and 360): the file found at the path of
\* this pass, if any.
file_at(plus) ==
    IF progress[plus].exists /\ progress[plus].name = progress_filename(plus)
    THEN progress[plus]
    ELSE NoFile

\* Mutation of savetxt_row: the two value columns change places.
savetxt_row_swapped(nu, nup, nupp, value, value_ps) ==
    << nu, nup, nupp, FormatE(value_ps), FormatE(value) >>

\* One row of np.savetxt(file, ..., fmt='%i %i %i %.8e %.8e') (lines 393-394)
savetxt_row(nu, nup, nupp, value, value_ps) ==
    << nu, nup, nupp, FormatE(value), FormatE(value_ps) >>

\* Mutation of savetxt_rows: a bra mode without triplets is given a row of
\* zeros.
savetxt_rows_never_empty(nu_single, gamma_out) ==
    IF gamma_out = << >> THEN << << nu_single, 0, 0, 0, 0 >> >>
    ELSE [i \in 1 .. Len(gamma_out) |->
            << nu_single,
               nu_of(gamma_out[i].index_kp, gamma_out[i].mup),
               nu_of(gamma_out[i].index_kpp, gamma_out[i].mupp),
               FormatE(gamma_out[i].pot_times_dirac),
               FormatE(gamma_out[i].dirac) >>]

\* The rows np.savetxt writes for one bra mode, one per triplet of gamma_out.
savetxt_rows(nu_single, gamma_out) ==
    [i \in 1 .. Len(gamma_out) |->
        savetxt_row(nu_single,
                    nu_of(gamma_out[i].index_kp, gamma_out[i].mup),
                    nu_of(gamma_out[i].index_kpp, gamma_out[i].mupp),
                    gamma_out[i].pot_times_dirac,
                    gamma_out[i].dirac)]

\* Appending rows to an open progress file.  When the file does not end with a
\* newline the first row continues its last line: the two fields that meet
\* read as one number.
append_rows(f, rows) ==
    IF rows = << >> THEN f
    ELSE IF f.newline \/ f.lines = << >>
         THEN [f EXCEPT !.lines = f.lines \o rows, !.newline = TRUE]
         ELSE LET last == f.lines[Len(f.lines)]
                  first == rows[1]
                  shifted == last[Len(last)] * Pow10(NumDigits(first[1]))
                  met == IF shifted < 0 THEN shifted - first[1] ELSE shifted + first[1]
                  glued == SubSeq(last, 1, Len(last) - 1) \o << met >> \o Tail(first)
              IN  [f EXCEPT !.lines = SubSeq(f.lines, 1, Len(f.lines) - 1)
                                        \o << glued >> \o Tail(rows),
                            !.newline = TRUE]

\* -------------------------------------------------------------- the replay
\* The unpacking of line 243: np.fromstring must yield exactly five numbers.
unpacks(line) == Len(line) = 5

\* np.zeros(n_phonons) and np.zeros((n_phonons, n_phonons)) of lines 229-232;
\* the tensor of a phonons object that was never asked for one.
zeros == [nu \in Modes |-> 0]
zero_tensor == [created |-> TRUE, t |-> [p \in Modes \X Modes |-> 0]]
no_tensor == [created |-> FALSE, t |-> << >>]

\* Mutation of tensor_update: a plus process adds at both entries.
tensor_update_added(t, plus, nu, nup, nupp, value) ==
    LET first == [t EXCEPT ![<< nu, nup >>] = @ + value]
    IN  [first EXCEPT ![<< nu, nupp >>] = @ + value]

\* The tensor update of lines 249-255 and 385-391.
tensor_update(t, plus, nu, nup, nupp, value) ==
    LET first == [t EXCEPT ![<< nu, nup >>] = IF plus = 1 THEN @ - value ELSE @ + value]
    IN  [first EXCEPT ![<< nu, nupp >>] = @ + value]

\* Mutation of tensor_after: the tensor is written whatever the option says.
tensor_written(tensor, enabled, plus, nu, nup, nupp, value) ==
    [created |-> TRUE,
     t |-> tensor_update(IF tensor.created THEN tensor.t ELSE zero_tensor.t,
                         plus, nu, nup, nupp, value)]

\* The tensor after one triplet, when the caller asked for it (lines 249, 385).
tensor_after(tensor, enabled, plus, nu, nup, nupp, value) ==
    IF enabled
    THEN [tensor EXCEPT !.t = tensor_update(tensor.t, plus, nu, nup, nupp, value)]
    ELSE tensor

\* Mutation of replay_line: a line that does not unpack is passed over.
replay_line_skips(acc, line, plus, enabled) ==
    IF ~unpacks(line) THEN acc
    ELSE [acc EXCEPT !.read_nu = line[1],
                     !.gamma[line[1]] = @ + line[4],
                     !.ps[line[1]] = @ + line[5],
                     !.tensor = tensor_after(@, enabled, plus, line[1], line[2], line[3], line[4])]

\* Mutation of replay_line: a line that unpacks is read and left unused.
replay_line_ignores(acc, line, plus, enabled) ==
    IF ~unpacks(line) THEN [acc EXCEPT !.failed = TRUE] ELSE acc

\* One iteration of the loop of lines 242-255 on an accumulator record.
replay_line(acc, line, plus, enabled) ==
    IF ~unpacks(line) THEN [acc EXCEPT !.failed = TRUE]
    ELSE [acc EXCEPT !.read_nu = line[1],
                     !.gamma[line[1]] = @ + line[4],
                     !.ps[line[1]] = @ + line[5],
                     !.tensor = tensor_after(@, enabled, plus, line[1], line[2], line[3], line[4])]

\* The loop of lines 242-255: it ends at the first line that does not unpack.
RECURSIVE replay(_, _, _, _)
replay(acc, lines, plus, enabled) ==
    IF lines = << >> \/ acc.failed THEN acc
    ELSE replay(replay_line(acc, Head(lines), plus, enabled), Tail(lines), plus, enabled)

\* Mutation of resume_from: the pass starts over from the first bra mode.
resume_from_start(last_nu) == 0

\* read_nu += 1 (line 315): the flat index the resumed pass starts from.
resume_from(last_nu) == last_nu + 1

\* `if index_k == initial_k and mu < initial_mu: break` (lines 356-357)
leaves_branch_loop(k, m, init) == k = init[1] /\ m < init[2]

\* ------------------------------------------------------------ calculate_gamma

\* No invocation has returned before this one.
NoPrevious == [done |-> FALSE, gamma |-> << >>, ps |-> << >>, evaluated |-> {},
               lines |-> << >>, tensor |-> no_tensor, enabled |-> FALSE]

\* lines 224-232: a new invocation zeroes the accumulators
Call(enabled) ==
    /\ pc \in {"idle", "done", "error", "killed"}
    /\ calls < MaxCalls
    /\ gamma' = zeros
    /\ ps' = zeros
    /\ gamma_tensor' = IF enabled THEN zero_tensor ELSE gamma_tensor
    /\ is_gamma_tensor_enabled' = enabled
    /\ pc' = "open"
    /\ is_plus' = 1
    /\ file' = FALSE
    /\ read_nu' = -1
    /\ initial' = << 0, 0 >>
    /\ index_k' = 0
    /\ mu' = 0
    /\ error' = "none"
    /\ calls' = calls + 1
    /\ previous' = IF pc = "done"
                   THEN [done |-> TRUE, gamma |-> gamma, ps |-> ps, evaluated |-> evaluated,
                         lines |-> [p \in {0, 1} |-> progress[p].lines],
                         tensor |-> gamma_tensor, enabled |-> is_gamma_tensor_enabled]
                   ELSE NoPrevious
    /\ evaluated' = {}
    /\ UNCHANGED << inputs, progress, interrupts, cache >>

\* The end of one pass of `for is_plus in [1, 0]`: the next pass, or the return.
EndPass ==
    /\ pc' = IF is_plus = 1 THEN "open" ELSE "done"
    /\ is_plus' = IF is_plus = 1 THEN 0 ELSE is_plus
    /\ file' = FALSE
    /\ index_k' = 0
    /\ mu' = 0

\* lines 234-319: open the progress file of this pass, replay it, find the
\* position to resume from and enter the loop over wavevectors.
OpenProgress ==
    /\ pc = "open"
    /\ LET f == file_at(is_plus)
           acc0 == [gamma |-> gamma, ps |-> ps, tensor |-> gamma_tensor,
                    read_nu |-> -1, failed |-> FALSE]
           acc == IF f.exists THEN replay(acc0, f.lines, is_plus, is_gamma_tensor_enabled)
                  ELSE acc0
           next_nu == resume_from(acc.read_nu)
       IN  /\ gamma' = acc.gamma
           /\ ps' = acc.ps
           /\ gamma_tensor' = acc.tensor
           /\ IF acc.failed
              THEN /\ pc' = "error"
                   /\ error' = "ValueError"
                   /\ read_nu' = acc.read_nu
                   /\ UNCHANGED << is_plus, file, initial, index_k, mu >>
              ELSE /\ read_nu' = next_nu
                   /\ error' = error
                   /\ IF next_nu < nptk * n_modes
                      THEN /\ initial' = << next_nu \div n_modes, next_nu % n_modes >>
                           /\ index_k' = next_nu \div n_modes
                           /\ mu' = 0
                           /\ file' = f.exists
                           /\ pc' = "loop"
                           /\ is_plus' = is_plus
                      ELSE /\ initial' = initial
                           /\ EndPass
    /\ UNCHANGED << inputs, progress, is_gamma_tensor_enabled, history, cache >>

\* The accumulators after the triplets of one bra mode (lines 379-391).
RECURSIVE accumulate(_, _, _, _, _)
accumulate(acc, nu_single, gamma_out, plus, enabled) ==
    IF gamma_out = << >> THEN acc
    ELSE LET o == Head(gamma_out)
             nup == nu_of(o.index_kp, o.mup)
             nupp == nu_of(o.index_kpp, o.mupp)
         IN  accumulate(
                [acc EXCEPT !.gamma[nu_single] = @ + o.pot_times_dirac,
                            !.ps[nu_single] = @ + o.dirac,
                            !.tensor = tensor_after(@, enabled, plus, nu_single, nup, nupp,
                                                    o.pot_times_dirac)],
                nu_single, Tail(gamma_out), plus, enabled)

\* The step to the next branch, the next wavevector, or out of the loop
\* (file.close(), line 395).
Advance(next_k, next_mu, f) ==
    IF next_k < nptk
    THEN /\ index_k' = next_k
         /\ mu' = next_mu
         /\ pc' = "loop"
         /\ is_plus' = is_plus
         /\ file' = TRUE
         /\ progress' = [progress EXCEPT ![is_plus] = f]
    ELSE /\ EndPass
         /\ progress' = [progress EXCEPT ![is_plus] = [f EXCEPT !.flushed = Len(f.lines)]]

\* lines 355-394: one iteration of `for mu in range(n_modes)`
LoopStep ==
    /\ pc = "loop"
    /\ IF leaves_branch_loop(index_k, mu, initial)
       THEN /\ Advance(index_k + 1, 0, progress[is_plus])
            /\ UNCHANGED << accumulators, error, evaluated >>
       ELSE LET nu_single == nu_of(index_k, mu)
                opened == [file_at(is_plus) EXCEPT !.exists = TRUE,
                                                   !.name = progress_filename(is_plus)]
                physical == frequencies[nu_single] > frequency_threshold
            IN  IF physical /\ broadening_shape \notin Kernels
                THEN /\ pc' = "error"
                     /\ error' = "UnboundLocalError"
                     /\ progress' = [progress EXCEPT ![is_plus] = opened]
                     /\ file' = TRUE
                     /\ UNCHANGED << accumulators, is_plus, index_k, mu, evaluated >>
                ELSE IF physical /\ broadening_raises(is_plus, index_k, mu)
                THEN /\ pc' = "error"
                     /\ error' = "ValueError (broadcast)"
                     /\ progress' = [progress EXCEPT ![is_plus] = opened]
                     /\ file' = TRUE
                     /\ UNCHANGED << accumulators, is_plus, index_k, mu, evaluated >>
                ELSE LET gamma_out == IF physical
                                      THEN calculate_single_gamma(is_plus, index_k, mu)
                                      ELSE << >>
                         acc == accumulate([gamma |-> gamma, ps |-> ps, tensor |-> gamma_tensor],
                                           nu_single, gamma_out, is_plus,
                                           is_gamma_tensor_enabled)
                         written == append_rows(opened, savetxt_rows(nu_single, gamma_out))
                     IN  /\ gamma' = acc.gamma
                         /\ ps' = acc.ps
                         /\ gamma_tensor' = acc.tensor
                         /\ evaluated' = IF physical
                                         THEN evaluated \cup {<< is_plus, nu_single >>}
                                         ELSE evaluated
                         /\ error' = error
                         /\ IF mu + 1 < n_modes
                            THEN Advance(index_k, mu + 1, written)
                            ELSE Advance(index_k + 1, 0, written)
    /\ UNCHANGED << inputs, is_gamma_tensor_enabled, read_nu, initial,
                    calls, previous, interrupts, cache >>

\* The text of a line cut after `fields` fields; a cut inside the last field
\* leaves its first digit.
RECURSIVE leading_digit(_)
leading_digit(v) == IF Abs(v) < 10 THEN v ELSE leading_digit(DropDigit(v))

cut_line(line, fields) ==
    IF fields < Len(line) THEN SubSeq(line, 1, fields)
    ELSE SubSeq(line, 1, Len(line) - 1) \o << leading_digit(line[Len(line)]) >>

\* Where a cut may fall inside a line: after the three mode indices, or inside
\* the last field.
PartialCuts == {3, 5}

\* The process is terminated.  Of the lines of the open progress file that have
\* not reached the disk, the last ones are lost: whole lines (lost), or the end
\* of the last line (part).  The accumulators and the locals die with the
\* process.
Kill ==
    /\ pc \in {"open", "loop"}
    /\ calls < MaxCalls
    /\ LET f == progress[is_plus]
           unwritten == Len(f.lines) - f.flushed
       IN  \E lost \in 0 .. Min(MaxLost, unwritten) :
           \E part \in {0} \cup PartialCuts :
               /\ part > 0 => lost = 1
               /\ LET keep == IF part > 0 THEN Len(f.lines) - 1 ELSE Len(f.lines) - lost
                      kept == SubSeq(f.lines, 1, keep)
                      cut == IF part = 0 THEN kept
                             ELSE kept \o << cut_line(f.lines[keep + 1], part) >>
                      at_mode == part = 0 /\ (keep = 0 \/ keep = Len(f.lines)
                                               \/ f.lines[keep][1] # f.lines[keep + 1][1])
                  IN  /\ progress' = [progress EXCEPT ![is_plus] =
                                        [f EXCEPT !.lines = cut, !.flushed = Len(cut),
                                                  !.newline = (part = 0) /\ f.newline]]
                      /\ interrupts' = Append(interrupts,
                                              IF at_mode THEN "mode"
                                              ELSE IF part = 0 THEN "triplet" ELSE "field")
    /\ pc' = "killed"
    /\ gamma' = << >>
    /\ ps' = << >>
    /\ gamma_tensor' = no_tensor
    /\ is_gamma_tensor_enabled' = FALSE
    /\ is_plus' = 1
    /\ file' = FALSE
    /\ read_nu' = -1
    /\ initial' = << 0, 0 >>
    /\ index_k' = 0
    /\ mu' = 0
    /\ evaluated' = {}
    /\ previous' = NoPrevious
    /\ UNCHANGED << inputs, error, calls, cache >>

\* ------------------------------------------------------- the cached fields
C_V_FILE == "c_v.npy"
OCCUPATIONS_FILE == "occupations.npy"
CacheFiles == {OCCUPATIONS_FILE, C_V_FILE}
NoRead == [field |-> "none", missed |-> FALSE, source |-> "none"]

\* What an AnharmonicController has: the attributes __init__ assigns (lines
\* 141-151) and the members of its class.
ControllerAttributes ==
    {"phonons", "folder_name", "_occupations", "_c_v", "occupations", "c_v", "calculate_gamma"}

\* self.<name>: the lookup succeeds, or raises AttributeError.
has_attribute(name) == name \in ControllerAttributes

\* __init__, lines 150-151
NewController == _occupations = None /\ _c_v = None

\* Mutation of load: the file of the folder is never read.
load_memory_only(held, name) == held

\* np.load of a file of the folder: its content, or None after the
\* FileNotFoundError the getters catch (lines 163-166, 195-199).
load(held, name) == IF held = None THEN disk[name] ELSE held

\* Where a getter finds the value it returns: in the controller, in the file
\* of its folder, or nowhere.
found_in(held, name) ==
    IF held # None THEN "memory" ELSE IF disk[name] # None THEN "disk" ELSE "none"

\* The heat capacity of lines 202-211, in units of KELVINTOJOULE / FixedPoint.
c_v_of(freqs, temp, classic, f_be) ==
    [nu \in DOMAIN freqs |->
        IF freqs[nu] > frequency_threshold
        THEN IF classic THEN FixedPoint
             ELSE (f_be[nu] * (f_be[nu] + FixedPoint) * freqs[nu] * freqs[nu])
                      \div (FixedPoint * temp * temp)
        ELSE 0]

\* The values a caller may set a cached field to.
SetValues == {occupations_of(frequencies, temperature, is_classic), [nu \in Modes |-> FixedPoint]}

\* occupations.getter, lines 160-179
get_occupations ==
    LET loaded == load(_occupations, OCCUPATIONS_FILE)
    IN  /\ last_read' = [field |-> OCCUPATIONS_FILE, missed |-> loaded = None,
                         source |-> found_in(_occupations, OCCUPATIONS_FILE)]
        /\ IF loaded # None
           THEN /\ _occupations' = loaded
                /\ returned' = loaded
                /\ raised' = "none"
                /\ disk' = disk
           ELSE IF \A name \in {"frequencies", "temperature", "frequency_threshold",
                                 "is_classic"} : has_attribute(name)
                THEN LET computed == occupations_of(frequencies, temperature, is_classic)
                     IN  /\ disk' = [disk EXCEPT ![OCCUPATIONS_FILE] = computed]
                         /\ _occupations' = computed
                         /\ returned' = computed
                         /\ raised' = "none"
                ELSE /\ raised' = "AttributeError"
                     /\ returned' = None
                     /\ UNCHANGED << _occupations, disk >>
        /\ UNCHANGED << inputs, accumulators, progress, locals, history, _c_v >>

\* occupations.setter, lines 181-185
set_occupations(new_occupations) ==
    /\ disk' = [disk EXCEPT ![OCCUPATIONS_FILE] = new_occupations]
    /\ _occupations' = new_occupations
    /\ raised' = "none"
    /\ UNCHANGED << inputs, accumulators, progress, locals, history, _c_v, returned, last_read >>

\* c_v.getter, lines 192-213
get_c_v ==
    LET loaded == load(_c_v, C_V_FILE)
    IN  /\ last_read' = [field |-> C_V_FILE, missed |-> loaded = None,
                         source |-> found_in(_c_v, C_V_FILE)]
        /\ IF loaded # None
           THEN /\ _c_v' = loaded
                /\ returned' = loaded
                /\ raised' = "none"
                /\ UNCHANGED << disk, _occupations >>
           ELSE IF \A name \in {"frequencies", "frequency_threshold", "temperature",
                                 "is_classic"} : has_attribute(name)
                THEN LET f_be == IF load(_occupations, OCCUPATIONS_FILE) # None
                                 THEN load(_occupations, OCCUPATIONS_FILE)
                                 ELSE occupations_of(frequencies, temperature, is_classic)
                         c_v == c_v_of(frequencies, temperature, is_classic, f_be)
                     IN  /\ disk' = [disk EXCEPT
                                        ![C_V_FILE] = c_v,
                                        ![OCCUPATIONS_FILE] =
                                            IF is_classic \/ @ # None THEN @ ELSE f_be]
                         /\ _occupations' = IF is_classic THEN _occupations ELSE f_be
                         /\ _c_v' = c_v
                         /\ returned' = c_v
                         /\ raised' = "none"
                ELSE /\ raised' = "AttributeError"
                     /\ returned' = None
                     /\ UNCHANGED << _occupations, _c_v, disk >>
        /\ UNCHANGED << inputs, accumulators, progress, locals, history >>

\* c_v.setter, lines 215-219
set_c_v(new_c_v) ==
    /\ disk' = [disk EXCEPT ![C_V_FILE] = new_c_v]
    /\ _c_v' = new_c_v
    /\ raised' = "none"
    /\ UNCHANGED << inputs, accumulators, progress, locals, history, _occupations, returned,
                    last_read >>

\* AnharmonicController(phonons) on the same folder: a controller that holds
\* nothing yet (lines 140-151).
Construct ==
    /\ _occupations' = None
    /\ _c_v' = None
    /\ raised' = "none"
    /\ UNCHANGED << inputs, accumulators, progress, locals, history, disk, returned, last_read >>

\* ------------------------------------------------------------ specification
Meshes == {ks \in (1 .. MaxNptk) \X (1 .. MaxNptk) \X (1 .. MaxNptk) : nptk_of(ks) <= MaxNptk}

\* The meshes of the checkpoint specification lie along the first axis.
LineMeshes == {ks \in Meshes : ks[2] = 1 /\ ks[3] = 1}

\* No width configured, or a fixed one.
Widths == {None} \cup {<< s >> : s \in 1 .. MaxSigma}

\* The branches of a wavevector come in ascending frequency, the lowest one
\* at rest.
Bands == {b \in [0 .. (n_particles * Dim - 1) -> 0 .. MaxFreq] :
            /\ b[0] = 0
            /\ \A i \in 1 .. (n_particles * Dim - 1) : b[i - 1] <= b[i]}

\* The triplets whose contribution, strongly coupled, fits a machine integer
\* (also where the tensor takes it twice, at nup = nupp of a minus process)
\* and has more digits than a progress file keeps.
HotTriplets ==
    IF broadening_shape \notin Kernels THEN {}
    ELSE {h \in {0, 1} \X Modes \X Modes \X Modes :
            LET k == h[2] \div n_modes
                m == h[2] % n_modes
                kp == h[3] \div n_modes
            IN  /\ frequencies[h[2]] > frequency_threshold
                /\ h[1] = 0 => h[3] # h[4]
                /\ h[4] \div n_modes = kpp_mapping(h[1], k, kp, k_size)
                /\ condition(h[1], k, m, kp, h[3] % n_modes, h[4] % n_modes)
                /\ LET d == dirac_delta(h[1], k, m, kp, h[3] % n_modes, h[4] % n_modes)
                       v == ((HotCoupling * d) \div omegas(h[2])) \div nptk
                   IN  /\ Abs(d) <= MaxValue \div HotCoupling
                       /\ FormatE(v) # v}

Init ==
    /\ k_size \in LineMeshes
    /\ \E band \in Bands : frequencies = [nu \in Modes |-> band[nu % n_modes]]
    /\ temperature \in 1 .. MaxTemp
    /\ is_classic \in BOOLEAN
    /\ broadening_shape \in Kernels \cup {"other"}
    /\ sigma_in \in Widths
    /\ density = occupations_of(frequencies, temperature, is_classic)
    /\ hot \in {<< >>} \cup HotTriplets
    /\ gamma = << >>
    /\ ps = << >>
    /\ gamma_tensor = no_tensor
    /\ progress = [p \in {0, 1} |-> NoFile]
    /\ pc = "idle"
    /\ is_gamma_tensor_enabled = FALSE
    /\ is_plus = 1
    /\ file = FALSE
    /\ read_nu = -1
    /\ initial = << 0, 0 >>
    /\ index_k = 0
    /\ mu = 0
    /\ error = "none"
    /\ calls = 0
    /\ previous = NoPrevious
    /\ evaluated = {}
    /\ interrupts = << >>
    /\ NewController
    /\ disk = [f \in CacheFiles |-> None]
    /\ returned = None
    /\ raised = "none"
    /\ last_read = NoRead

Next ==
    \/ \E enabled \in BOOLEAN : Call(enabled)
    \/ OpenProgress
    \/ LoopStep
    \/ Kill

Spec == Init /\ [][Next]_vars

\* ------------------------------------------------- the uninterrupted result
\* What the loop of lines 355-394 computes for one bra mode of one pass.
fresh(plus, nu) ==
    IF frequencies[nu] > frequency_threshold
    THEN calculate_single_gamma(plus, nu \div n_modes, nu % n_modes)
    ELSE << >>

\* pot_times_dirac.sum() and dirac.sum() (lines 379-380)
pot_sum(out) == SumSeq([i \in 1 .. Len(out) |-> out[i].pot_times_dirac])
dirac_sum(out) == SumSeq([i \in 1 .. Len(out) |-> out[i].dirac])

\* The arrays one invocation returns when it finds no progress file and runs
\* to its end: every bra mode of both passes is evaluated once.
uninterrupted_gamma == [nu \in Modes |-> pot_sum(fresh(1, nu)) + pot_sum(fresh(0, nu))]
uninterrupted_ps == [nu \in Modes |-> dirac_sum(fresh(1, nu)) + dirac_sum(fresh(0, nu))]

\* The invocation has returned and follows terminated ones.
Resumed == pc = "done" /\ interrupts # << >>

\* Every termination so far left whole bra modes in the progress file.
BetweenBraModes == \A i \in 1 .. Len(interrupts) : interrupts[i] = "mode"

\* ------------------------------------------------------------------- C1
\* C1: an invocation that resumes a run interrupted after N whole bra modes
\* returns the rate and phase-space arrays of one uninterrupted run.
RoundTripResume ==
    (Resumed /\ BetweenBraModes)
        => (gamma = uninterrupted_gamma /\ ps = uninterrupted_ps)

\* ------------------------------------------------------------------- C2
\* C2: wherever the earlier run was terminated, also inside the lines of one
\* bra mode, the resumed invocation returns the totals of an uninterrupted run.
CancellationAnywhere ==
    Resumed => \A nu \in Modes : /\ gamma[nu] = uninterrupted_gamma[nu]
                                 /\ ps[nu] = uninterrupted_ps[nu]

\* ------------------------------------------------------------------- C3
\* What a progress file keeps of the contributions of one bra mode.
logged_pot_sum(out) == SumSeq([i \in 1 .. Len(out) |-> FormatE(out[i].pot_times_dirac)])
logged_dirac_sum(out) == SumSeq([i \in 1 .. Len(out) |-> FormatE(out[i].dirac)])

\* The digits of the bra mode nu that an invocation which evaluated the modes
\* `done` held in memory and did not write.
unlogged_gamma(done, nu) ==
    SumSeq([i \in 1 .. 2 |->
        IF << i - 1, nu >> \in done
        THEN pot_sum(fresh(i - 1, nu)) - logged_pot_sum(fresh(i - 1, nu)) ELSE 0])
unlogged_ps(done, nu) ==
    SumSeq([i \in 1 .. 2 |->
        IF << i - 1, nu >> \in done
        THEN dirac_sum(fresh(i - 1, nu)) - logged_dirac_sum(fresh(i - 1, nu)) ELSE 0])

\* The invocation made after one that returned has returned too.
Rerun == pc = "done" /\ previous.done

\* C3 as stated: an invocation made after one that returned appends no line
\* and returns the very arrays the completed one returned.
IdempotentRerun ==
    Rerun => /\ \A p \in {0, 1} : progress[p].lines = previous.lines[p]
             /\ gamma = previous.gamma
             /\ ps = previous.ps

\* C3, amended: the invocation made after one that returned appends no line
\* to either log, and the arrays it returns are those of the completed run
\* with every contribution that run had computed itself taken as the log
\* holds it, rounded to nine significant digits.
RerunReplaysLogs ==
    previous.done =>
        /\ \A p \in {0, 1} : progress[p].lines = previous.lines[p]
        /\ pc = "done" =>
            \A nu \in Modes :
                /\ gamma[nu] = previous.gamma[nu] - unlogged_gamma(previous.evaluated, nu)
                /\ ps[nu] = previous.ps[nu] - unlogged_ps(previous.evaluated, nu)

RerunReached ==
    /\ Rerun
    /\ previous.evaluated # {}
    /\ \A p \in {0, 1} : progress[p].lines # << >>

\* ------------------------------------------------------------------- C5
\* C5: with a kernel name that is none of the supported ones, an invocation
\* goes no further than its start: no progress file is replayed, opened or
\* created, and the loop over the bra modes is never entered.
UnsupportedKernelFailsFirst ==
    broadening_shape \notin Kernels =>
        /\ pc \notin {"loop", "done"}
        /\ \A p \in {0, 1} : ~progress[p].exists

\* ------------------------------------------------------------------- C6
\* Some line of the progress file does not hold five fields.
malformed(f) == \E i \in 1 .. Len(f.lines) : ~unpacks(f.lines[i])

\* C6: opening a progress file one of whose lines does not hold five fields
\* ends the invocation with an error, nothing being evaluated or written
\* after it; opening none, or a well-formed one, is no error; an invocation
\* ended by an error does nothing more.
MalformedLineAborts ==
    [][ /\ (pc = "open" /\ pc' # "killed") =>
              IF malformed(progress[is_plus])
              THEN /\ pc' = "error"
                   /\ error' = "ValueError"
                   /\ evaluated' = evaluated
                   /\ progress' = progress
              ELSE /\ pc' # "error"
                   /\ error' = "none"
        /\ pc = "error" => (pc' = "open" /\ calls' = calls + 1)
      ]_vars

MalformedLineMet ==
    /\ pc = "error"
    /\ error = "ValueError"
    /\ malformed(progress[is_plus])
    /\ evaluated = IF is_plus = 1 THEN {} ELSE evaluated

\* ------------------------------------------------------------------- C7
\* The last line of the progress file was cut short by a termination.
truncated_tail(f) == f.exists /\ f.lines # << >> /\ ~f.newline

\* C7: opening a progress file whose last line was cut short gives what
\* opening the file without that line gives: no error, the accumulators of
\* the whole lines, and the resume position after the last whole line.
TruncatedTailDiscarded ==
    [][ (pc = "open" /\ pc' # "killed" /\ truncated_tail(progress[is_plus])) =>
            LET f == progress[is_plus]
                whole == replay([gamma |-> gamma, ps |-> ps, tensor |-> gamma_tensor,
                                 read_nu |-> -1, failed |-> FALSE],
                                SubSeq(f.lines, 1, Len(f.lines) - 1),
                                is_plus, is_gamma_tensor_enabled)
            IN  /\ pc' # "error"
                /\ gamma' = whole.gamma
                /\ ps' = whole.ps
                /\ read_nu' = resume_from(whole.read_nu)
      ]_vars

\* ------------------------------------------------------------------- C9
\* The accumulators as the invocation would hold them had it been made with
\* the tensor option set to `enabled`.
held(enabled) ==
    [gamma |-> gamma, ps |-> ps,
     tensor |-> IF enabled = is_gamma_tensor_enabled THEN gamma_tensor
                ELSE IF enabled THEN zero_tensor ELSE no_tensor]

\* C9: a step of an invocation made with the tensor option off leaves the
\* tensor as it is, uncreated if it was; and every replay and every bra mode
\* gives the totals, the resume position and the log lines it gives under the
\* other setting of the option.
TensorOptionOff ==
    [][ /\ (~is_gamma_tensor_enabled' /\ pc' # "killed") => gamma_tensor' = gamma_tensor
        /\ (pc = "open" /\ pc' # "killed") =>
              LET f == progress[is_plus]
                  start(e) == [gamma |-> held(e).gamma, ps |-> held(e).ps,
                               tensor |-> held(e).tensor, read_nu |-> -1, failed |-> FALSE]
                  other == replay(start(~is_gamma_tensor_enabled), f.lines, is_plus,
                                  ~is_gamma_tensor_enabled)
              IN  /\ gamma' = other.gamma
                  /\ ps' = other.ps
                  /\ (pc' = "error") = other.failed
                  /\ ~other.failed => read_nu' = resume_from(other.read_nu)
        /\ (pc = "loop" /\ pc' # "killed" /\ evaluated' # evaluated) =>
              LET nu_single == nu_of(index_k, mu)
                  gamma_out == fresh(is_plus, nu_single)
                  other == accumulate(held(~is_gamma_tensor_enabled), nu_single, gamma_out,
                                      is_plus, ~is_gamma_tensor_enabled)
              IN  /\ gamma' = other.gamma
                  /\ ps' = other.ps
                  /\ progress'[is_plus].lines
                        = append_rows(progress[is_plus], savetxt_rows(nu_single, gamma_out)).lines
      ]_vars

TensorOptionOffMet ==
    /\ pc = "done"
    /\ ~is_gamma_tensor_enabled
    /\ ~gamma_tensor.created
    /\ interrupts # << >>
    /\ evaluated # {}
    /\ \E nu \in Modes : gamma[nu] # 0

\* ------------------------------------------------------------------ C10
\* The passes whose progress file the running invocation has replayed.
replayed_passes ==
    IF pc = "done" \/ (pc = "loop" /\ is_plus = 0) THEN {0, 1}
    ELSE IF pc = "loop" \/ (pc = "open" /\ is_plus = 0) THEN {1}
    ELSE {}

\* The progress file of one pass, replayed from its start into empty arrays.
from_start(plus) ==
    replay([gamma |-> zeros, ps |-> zeros, tensor |-> no_tensor,
            read_nu |-> -1, failed |-> FALSE],
           progress[plus].lines, plus, FALSE)

replayed_gamma(nu) ==
    SumSeq([i \in 1 .. 2 |-> IF (i - 1) \in replayed_passes
                             THEN from_start(i - 1).gamma[nu] ELSE 0])
replayed_ps(nu) ==
    SumSeq([i \in 1 .. 2 |-> IF (i - 1) \in replayed_passes
                             THEN from_start(i - 1).ps[nu] ELSE 0])

\* The loop is between two bra modes, or the invocation has returned.
BetweenModesOrAtEnd == pc \in {"loop", "done"} \/ (pc = "open" /\ is_plus = 0)

InitCache ==
    /\ k_size \in LineMeshes
    /\ \E band \in Bands : frequencies = [nu \in Modes |-> band[nu % n_modes]]
    /\ temperature \in 1 .. MaxTemp
    /\ is_classic \in BOOLEAN
    /\ broadening_shape = "gauss"
    /\ sigma_in = << 1 >>
    /\ density = occupations_of(frequencies, temperature, is_classic)
    /\ hot = << >>
    /\ gamma = << >>
    /\ ps = << >>
    /\ gamma_tensor = no_tensor
    /\ progress = [p \in {0, 1} |-> NoFile]
    /\ pc = "idle"
    /\ is_gamma_tensor_enabled = FALSE
    /\ is_plus = 1
    /\ file = FALSE
    /\ read_nu = -1
    /\ initial = << 0, 0 >>
    /\ index_k = 0
    /\ mu = 0
    /\ error = "none"
    /\ calls = 0
    /\ previous = NoPrevious
    /\ evaluated = {}
    /\ interrupts = << >>
    /\ NewController
    /\ disk \in [CacheFiles -> {None} \cup SetValues]
    /\ returned = None
    /\ raised = "none"
    /\ last_read = NoRead

NextCache ==
    \/ get_occupations
    \/ \E v \in SetValues : set_occupations(v)
    \/ get_c_v
    \/ \E v \in SetValues : set_c_v(v)
    \/ Construct

SpecCache == InitCache /\ [][NextCache]_vars

\* ------------------------------------------------------------------- C8
\* What reading a field computes when it is neither held nor on disk.
computed_field(field) ==
    IF field = OCCUPATIONS_FILE
    THEN occupations_of(frequencies, temperature, is_classic)
    ELSE c_v_of(frequencies, temperature, is_classic,
                occupations_of(frequencies, temperature, is_classic))

\* C8: a read of a cached field that is neither held in memory nor on disk
\* raises nothing, returns the value computed from the frequencies, the
\* temperature and the statistics, and leaves that value on disk.
MissingCacheRecovered ==
    last_read.missed =>
        /\ raised = "none"
        /\ returned = computed_field(last_read.field)
        /\ disk[last_read.field] = returned

\* --------------------------------------------------- the mesh specification
\* The meshes of up to MaxMeshNptk wavevectors with sides of up to MaxSide.
SolidMeshes ==
    {ks \in (1 .. MaxSide) \X (1 .. MaxSide) \X (1 .. MaxSide) : nptk_of(ks) <= MaxMeshNptk}

\* calculate_gamma is run to its end, and again, on a mesh of any shape.
InitMesh ==
    /\ k_size \in SolidMeshes
    /\ \E band \in Bands : frequencies = [nu \in Modes |-> band[nu % n_modes]]
    /\ temperature \in 1 .. MaxTemp
    /\ is_classic = TRUE
    /\ broadening_shape \in Kernels
    /\ sigma_in \in Widths
    /\ density = occupations_of(frequencies, temperature, is_classic)
    /\ hot = << >>
    /\ gamma = << >>
    /\ ps = << >>
    /\ gamma_tensor = no_tensor
    /\ progress = [p \in {0, 1} |-> NoFile]
    /\ pc = "idle"
    /\ is_gamma_tensor_enabled = FALSE
    /\ is_plus = 1
    /\ file = FALSE
    /\ read_nu = -1
    /\ initial = << 0, 0 >>
    /\ index_k = 0
    /\ mu = 0
    /\ error = "none"
    /\ calls = 0
    /\ previous = NoPrevious
    /\ evaluated = {}
    /\ interrupts = << >>
    /\ NewController
    /\ disk = [f \in CacheFiles |-> None]
    /\ returned = None
    /\ raised = "none"
    /\ last_read = NoRead

NextMesh ==
    \/ \E enabled \in BOOLEAN : Call(enabled)
    \/ OpenProgress
    \/ LoopStep

SpecMesh == InitMesh /\ [][NextMesh]_vars

\* ------------------------------------------------------------------- C4
\* The wavevector of a flat mode index, as its three mesh coordinates.
wavevector(nu) == unravel_index(nu \div n_modes, k_size)

\* k + kp = kpp (plus) or k - kp = kpp (minus), modulo the sides of the mesh.
conserves(plus, line) ==
    \A c \in 1 .. Dim :
        LET i_k == wavevector(line[1])[c]
            i_kp == wavevector(line[2])[c]
            i_kpp == wavevector(line[3])[c]
        IN  IF plus = 1
            THEN (i_k + i_kp - i_kpp) % k_size[c] = 0
            ELSE (i_k - i_kp - i_kpp) % k_size[c] = 0

\* C4: every line of the plus log satisfies wrap(k + kp) = kpp and every line
\* of the minus log wrap(k - kp) = kpp, component by component.
MomentumConservation ==
    \A plus \in {0, 1} :
        \A i \in 1 .. Len(progress[plus].lines) : conserves(plus, progress[plus].lines[i])

\* A minus line whose k - kp leaves the mesh on a side of three and is
\* wrapped back into it.
WrappedMinusLine ==
    /\ pc = "done"
    /\ \E i \in 1 .. Len(progress[0].lines) :
        \E c \in 1 .. Dim :
            /\ k_size[c] = MaxSide
            /\ wavevector(progress[0].lines[i][1])[c] < wavevector(progress[0].lines[i][2])[c]
            /\ wavevector(progress[0].lines[i][3])[c] = MaxSide - 1

\* ------------------------------------------------------------------ C11
\* No triplet of the bra mode nu passes the tests of lines 84-86 in one pass.
no_survivor(plus, nu) ==
    \A kp \in 0 .. (nptk - 1) : \A mup \in 0 .. (n_modes - 1) : \A mupp \in 0 .. (n_modes - 1) :
        ~condition(plus, nu \div n_modes, nu % n_modes, kp, mup, mupp)

\* The bra mode is at rest, or is physical and none of its triplets survives.
without_work(plus, nu) == frequencies[nu] <= frequency_threshold \/ no_survivor(plus, nu)

\* The flat position the loops of lines 319 and 355 reach after (k, m).
next_position(k, m) == IF m + 1 < n_modes THEN << k, m + 1 >> ELSE << k + 1, 0 >>

\* C11: under a supported kernel, the iteration of the loop on a bra mode that
\* is at rest, or none of whose triplets survives, raises nothing, leaves the
\* arrays and the lines of the log as they are and goes on to the next bra
\* mode, or ends the pass after the last one; and no line of a log names such
\* a mode as its bra mode.
NoWorkContributesNothing ==
    [][ /\ ( /\ pc = "loop"
             /\ pc' # "killed"
             /\ broadening_shape \in Kernels
             /\ ~leaves_branch_loop(index_k, mu, initial)
             /\ without_work(is_plus, nu_of(index_k, mu)) ) =>
              /\ pc' # "error"
              /\ error' = "none"
              /\ gamma' = gamma
              /\ ps' = ps
              /\ gamma_tensor' = gamma_tensor
              /\ progress'[is_plus].lines = progress[is_plus].lines
              /\ IF next_position(index_k, mu)[1] < nptk
                 THEN pc' = "loop" /\ << index_k', mu' >> = next_position(index_k, mu)
                 ELSE pc' = IF is_plus = 1 THEN "open" ELSE "done"
        /\ \A p \in {0, 1} : \A i \in 1 .. Len(progress'[p].lines) :
              ~without_work(p, progress'[p].lines[i][1])
      ]_vars

\* An invocation has returned after going through a physical bra mode none of
\* whose triplets survived in one pass, and through bra modes with triplets.
NoWorkMet ==
    /\ pc = "done"
    /\ \E p \in {0, 1} : \E nu \in Modes :
          /\ frequencies[nu] > frequency_threshold
          /\ no_survivor(p, nu)
          /\ << p, nu >> \in evaluated
          /\ \A i \in 1 .. Len(progress[p].lines) : progress[p].lines[i][1] # nu
    /\ \E p \in {0, 1} : progress[p].lines # << >>

\* ------------------------------------------- the seeded-cache specification
\* The frequencies of the phonons object are recomputed (another structure or
\* force field in the same folder); the controller and its folder are not told.
ChangeFrequencies ==
    /\ \E band \in Bands :
          /\ frequencies' = [nu \in Modes |-> band[nu % n_modes]]
          /\ frequencies' # frequencies
    /\ density' = occupations_of(frequencies', temperature, is_classic)
    /\ UNCHANGED << k_size, temperature, is_classic, broadening_shape, sigma_in, hot,
                    accumulators, progress, locals, history, cache >>

\* A controller on an empty folder, for a structure of one wavevector:
\* whatever its files come to hold was set.
InitSeeded == InitCache /\ nptk = 1 /\ disk = [f \in CacheFiles |-> None]

NextSeeded ==
    \/ NextCache
    \/ ChangeFrequencies

SpecSeeded == InitSeeded /\ [][NextSeeded]_vars

\* ------------------------------------------------------------------ C12
\* What a controller holds of a cached field.
held_field(name) == IF name = OCCUPATIONS_FILE THEN _occupations ELSE _c_v

\* The read of a field that is held or on disk: it raises nothing, returns the
\* value held, or else the one on disk, which the controller then holds, and
\* writes nothing.
reads_back(name, held_before, held_after) ==
    (held_before # None \/ disk[name] # None) =>
        /\ raised' = "none"
        /\ returned' = IF held_before # None THEN held_before ELSE disk[name]
        /\ held_after = returned'
        /\ disk' = disk

\* C12: a setter leaves its value in the file and in the controller; a value
\* the controller holds is the one of the file; a read of a field that is held
\* or on disk returns that value and computes nothing, in the controller that
\* set it and in one built later on the same folder; and neither building a
\* controller nor a change of the frequencies touches the files.
SetThenGet ==
    [][ /\ \A v \in SetValues :
              /\ set_occupations(v) => (disk'[OCCUPATIONS_FILE] = v /\ _occupations' = v)
              /\ set_c_v(v) => (disk'[C_V_FILE] = v /\ _c_v' = v)
        /\ \A name \in CacheFiles :
              held_field(name)' # None => disk'[name] = held_field(name)'
        /\ get_occupations => reads_back(OCCUPATIONS_FILE, _occupations, _occupations')
        /\ get_c_v => reads_back(C_V_FILE, _c_v, _c_v')
        /\ (Construct \/ ChangeFrequencies) => disk' = disk
      ]_vars

\* A controller built after the frequencies changed has read from its folder
\* a value set for the former frequencies, and returned it.
StaleValueRead ==
    /\ last_read.field # "none"
    /\ last_read.source = "disk"
    /\ raised = "none"
    /\ returned # None
    /\ returned = disk[last_read.field]
    /\ returned = held_field(last_read.field)
    /\ returned \notin SetValues
    /\ returned # computed_field(last_read.field)

\* ------------------------------------------------------------------ C13
\* A whole line of the plus log whose two partner modes are equally occupied.
equally_occupied(line) == Len(line) = 5 /\ density[line[2]] = density[line[3]]

\* C13: every line of the plus log whose two partner modes have the same
\* occupation carries a rate contribution of 0 and a weight of 0; and so does
\* every surviving plus triplet of every physical bra mode as
\* calculate_single_gamma returns it, under each kernel and width.
PlusWeightVanishes ==
    /\ \A i \in 1 .. Len(progress[1].lines) :
          equally_occupied(progress[1].lines[i]) =>
              (progress[1].lines[i][4] = 0 /\ progress[1].lines[i][5] = 0)
    /\ broadening_shape \in Kernels =>
          \A nu \in Modes :
              LET out == fresh(1, nu)
              IN  \A i \in 1 .. Len(out) :
                      density[nu_of(out[i].index_kp, out[i].mup)]
                            = density[nu_of(out[i].index_kpp, out[i].mupp)]
                        => (out[i].dirac = 0 /\ out[i].pot_times_dirac = 0)

\* The plus log of an invocation that returned holds a line of equally
\* occupied partners, and a line of unequally occupied ones that is not 0.
PlusWeightVanishesMet ==
    /\ pc = "done"
    /\ \E i \in 1 .. Len(progress[1].lines) :
          /\ equally_occupied(progress[1].lines[i])
          /\ progress[1].lines[i][4] = 0
    /\ \E i \in 1 .. Len(progress[1].lines) :
          /\ Len(progress[1].lines[i]) = 5
          /\ progress[1].lines[i][4] # 0

\* ------------------------------------------------------------------ C14
\* The widths and energy mismatches the triangular kernel is tried on.
MaxWidth == 4

\* C14: the triangular kernel is 0 for every mismatch at or beyond the width,
\* positive and strictly decreasing in the mismatch within it, symmetric in
\* the mismatch; and applied to the surviving triplets of a bra mode, with
\* one width for all or one width each, it returns one value per triplet:
\* no invocation under the triangular kernel ends in its ValueError.
TriangularSupport ==
    /\ \A width \in 1 .. MaxWidth : \A delta \in 0 .. (2 * MaxWidth) :
          /\ delta >= width => triangular_delta(delta, width) = 0
          /\ delta < width => triangular_delta(delta, width) > 0
          /\ delta + 1 < width => triangular_delta(delta + 1, width) < triangular_delta(delta, width)
          /\ triangular_delta(-delta, width) = triangular_delta(delta, width)
    /\ broadening_shape = "triangle" => error # "ValueError (broadcast)"

\* ------------------------------------------------------------------ C15
\* A pass has just ended: the plus one (the minus one is about to open its
\* file) or the minus one (the invocation has returned).
pass_ended == pc = "done" \/ (pc = "open" /\ is_plus = 0)
ended_pass == IF pc = "done" THEN 0 ELSE 1

\* C15: a pass that found a log whose last line names the bra mode read_nu - 1
\* has, when it ends, evaluated every physical bra mode from read_nu on, and
\* no bra mode before read_nu.
ResumePosition ==
    (pass_ended /\ read_nu >= 1) =>
        \A nu \in Modes :
            << ended_pass, nu >> \in evaluated
                <=> (nu >= read_nu /\ frequencies[nu] > frequency_threshold)

\* ------------------------------------------------------------------ C16
\* The first invocation on a folder without progress files, not terminated.
FreshRun == calls = 1 /\ interrupts = << >> /\ pc # "killed" /\ broadening_shape \in Kernels

\* The physical bra modes.
physical_modes == {nu \in Modes : frequencies[nu] > frequency_threshold}

\* The bra modes a pass that started at the first mesh position has evaluated
\* when it stands at the flat position nu: the physical ones before nu.
evaluated_before(plus, nu) == {<< plus, n >> : n \in {x \in physical_modes : x < nu}}

\* C16: an invocation that finds no progress file raises nothing; its plus
\* pass starts at the first mesh position with empty arrays and is complete
\* before the minus pass starts; in each pass the bra modes are gone through
\* one flat index after the other, the physical ones evaluated as they are
\* passed; and the invocation returns with every physical bra mode of both
\* passes evaluated.
FreshRunOrder ==
    [][ FreshRun' =>
          /\ pc' # "error"
          /\ error' = "none"
          /\ (pc' = "open" /\ is_plus' = 1) =>
                (gamma' = zeros /\ ps' = zeros /\ evaluated' = {})
          /\ (pc = "open" /\ pc' = "loop") =>
                (read_nu' = 0 /\ initial' = << 0, 0 >> /\ index_k' = 0 /\ mu' = 0
                    /\ accumulators' = accumulators)
          /\ pc' = "loop" =>
                evaluated' = evaluated_before(is_plus', nu_of(index_k', mu'))
                                \cup (IF is_plus' = 0 THEN evaluated_before(1, n_phonons) ELSE {})
          /\ (pc = "loop" /\ pc' = "loop") =>
                (is_plus' = is_plus /\ nu_of(index_k', mu') = nu_of(index_k, mu) + 1)
          /\ (pc = "loop" /\ pc' # "loop") => nu_of(index_k, mu) = n_phonons - 1
          /\ (pc' = "open" /\ is_plus' = 0) => evaluated' = evaluated_before(1, n_phonons)
          /\ pc' = "done" =>
                (is_plus' = 0 /\ evaluated' = evaluated_before(1, n_phonons)
                                                \cup evaluated_before(0, n_phonons))
      ]_vars

\* ------------------------------------------------------------------ C17
\* The energy mismatch of the triplet a log line names, and its width.
mismatch(plus, line) ==
    Abs(frequencies[line[1]] + (plus * 2 - 1) * frequencies[line[2]] - frequencies[line[3]])
width_of(plus, line) ==
    sigma_small(plus, line[1] \div n_modes, line[2] \div n_modes,
                line[2] % n_modes, line[3] % n_modes)

\* The two tests of lines 84-86 on the triplet of a log line.
passes_filter(plus, line) ==
    /\ mismatch(plus, line) < DELTA_THRESHOLD * width_of(plus, line)
    /\ frequencies[line[2]] > frequency_threshold
    /\ frequencies[line[3]] > frequency_threshold

\* C17: the triplet of every line of either log has an energy mismatch
\* strictly below DELTA_THRESHOLD widths (in units of 2 pi) and two partner
\* modes above the frequency threshold; and a step changes the rate or the
\* phase space of a bra mode only where it appends such lines for it, or
\* replays a file.
TripletFilter ==
    [][ /\ \A p \in {0, 1} : \A i \in 1 .. Len(progress'[p].lines) :
              passes_filter(p, progress'[p].lines[i])
        /\ (pc = "loop" /\ pc' # "killed") =>
              \A nu \in Modes :
                  (gamma'[nu] # gamma[nu] \/ ps'[nu] # ps[nu]) =>
                      \E i \in (Len(progress[is_plus].lines) + 1) .. Len(progress'[is_plus].lines) :
                          progress'[is_plus].lines[i][1] = nu
      ]_vars

\* Both logs of an invocation that returned hold lines, one of them with a
\* mismatch that is not 0, and a triplet of two physical partners was kept
\* out of the plus log by the energy test alone.
TripletFilterMet ==
    /\ pc = "done"
    /\ \A p \in {0, 1} : progress[p].lines # << >>
    /\ \E p \in {0, 1} : \E i \in 1 .. Len(progress[p].lines) :
          mismatch(p, progress[p].lines[i]) > 0
    /\ \E nu \in physical_modes : \E nup \in physical_modes : \E nupp \in physical_modes :
          /\ nupp \div n_modes = kpp_mapping(1, nu \div n_modes, nup \div n_modes, k_size)
          /\ ~passes_filter(1, << nu, nup, nupp >>)
          /\ << 1, nu >> \in evaluated
          /\ \A i \in 1 .. Len(progress[1].lines) :
                SubSeq(progress[1].lines[i], 1, 3) # << nu, nup, nupp >>

\* ------------------------------------------------------------------ C18
\* What the triplets `entries` (each <<nu, nup, nupp, value>>) of one process
\* type add to the tensor entry [a, b] under the sign convention: -value at
\* [nu, nup] and +value at [nu, nupp] for a plus process, +value at both for
\* a minus one.
signed_sum(entries, plus, a, b) ==
    SumSeq([i \in 1 .. Len(entries) |->
        (IF << a, b >> = << entries[i][1], entries[i][2] >>
         THEN (IF plus = 1 THEN -entries[i][4] ELSE entries[i][4]) ELSE 0)
        + (IF << a, b >> = << entries[i][1], entries[i][3] >> THEN entries[i][4] ELSE 0)])

\* The triplets of one bra mode as the loop holds them, and as it logs them.
computed_entries(plus, nu) ==
    LET out == fresh(plus, nu)
    IN  [i \in 1 .. Len(out) |->
            << nu, nu_of(out[i].index_kp, out[i].mup), nu_of(out[i].index_kpp, out[i].mupp),
               out[i].pot_times_dirac >>]
logged_entries(plus, nu) ==
    LET out == computed_entries(plus, nu)
    IN  [i \in 1 .. Len(out) |-> << out[i][1], out[i][2], out[i][3], FormatE(out[i][4]) >>]

\* The digits of the tensor entry [a, b] that an invocation which evaluated
\* the bra modes `done` held in memory and did not write.
unlogged_tensor(done, a, b) ==
    SumSeq([i \in 1 .. 2 |->
        IF << i - 1, a >> \in done
        THEN signed_sum(computed_entries(i - 1, a), i - 1, a, b)
                - signed_sum(logged_entries(i - 1, a), i - 1, a, b)
        ELSE 0])

\* An invocation with the tensor has returned after one with the tensor.
TensorRerun == Rerun /\ is_gamma_tensor_enabled /\ previous.enabled

\* C18 as stated: the tensor an invocation rebuilds from the complete logs is
\* the tensor of the invocation that completed them.
TensorReplayEquals == TensorRerun => gamma_tensor.t = previous.tensor.t

\* C18, amended: with the tensor enabled, the triplets of an evaluated bra
\* mode and the lines of a replayed log change the tensor by the sign
\* convention (-v at [nu, nup], +v at [nu, nupp] for plus; +v at both for
\* minus); and the tensor rebuilt from complete logs is the tensor of the
\* invocation that completed them with every contribution that invocation
\* had computed itself rounded to nine significant digits, as logged.
TensorSignConvention ==
    [][ /\ (pc = "loop" /\ pc' # "killed" /\ is_gamma_tensor_enabled
                /\ evaluated' # evaluated) =>
              \A a \in Modes : \A b \in Modes :
                  gamma_tensor'.t[<< a, b >>]
                    = gamma_tensor.t[<< a, b >>]
                        + signed_sum(computed_entries(is_plus, nu_of(index_k, mu)),
                                     is_plus, a, b)
        /\ (pc = "open" /\ pc' \notin {"killed", "error"} /\ is_gamma_tensor_enabled) =>
              \A a \in Modes : \A b \in Modes :
                  gamma_tensor'.t[<< a, b >>]
                    = gamma_tensor.t[<< a, b >>]
                        + signed_sum(progress[is_plus].lines, is_plus, a, b)
        /\ TensorRerun' =>
              \A a \in Modes : \A b \in Modes :
                  gamma_tensor'.t[<< a, b >>]
                    = previous'.tensor.t[<< a, b >>]
                        - unlogged_tensor(previous'.evaluated, a, b)
      ]_vars

\* The tensor rebuilt from the logs has an entry below 0 (a plus process) and
\* differs from the one of the invocation that wrote them.
TensorRerunMet ==
    /\ TensorRerun
    /\ previous.evaluated # {}
    /\ \E a \in Modes : \E b \in Modes : gamma_tensor.t[<< a, b >>] < 0
    /\ \E a \in Modes : \E b \in Modes : unlogged_tensor(previous.evaluated, a, b) # 0

\* ------------------------------------------------------------------ C19
\* The bra-mode index never decreases from one line to the next.
bra_ordered(lines) == \A i \in 1 .. (Len(lines) - 1) : lines[i][1] <= lines[i + 1][1]

\* The digits of the number a are the first digits of the number b.
RECURSIVE digit_prefix(_, _)
digit_prefix(a, b) == b = a \/ (b # 0 /\ digit_prefix(a, DropDigit(b)))

\* The text of the line `new` starts with the text of the line `old`.
line_extends(old, new) ==
    /\ Len(old) <= Len(new)
    /\ SubSeq(new, 1, Len(old) - 1) = SubSeq(old, 1, Len(old) - 1)
    /\ digit_prefix(old[Len(old)], new[Len(old)])

\* The text of the file `new` starts with the text of the file `old`.
text_extends(old, new) ==
    /\ Len(old) <= Len(new)
    /\ SubSeq(new, 1, Len(old) - 1) = SubSeq(old, 1, Len(old) - 1)
    /\ old # << >> => line_extends(old[Len(old)], new[Len(old)])

\* C19: in each log the bra-mode index never decreases from line to line;
\* a step of an invocation leaves the text of each log as it is or adds to
\* its end, and a termination takes away only text that had not reached the
\* disk; the text an iteration adds names one bra mode, beyond the bra mode of
\* the last line that was there.
NoDoubleCounting ==
    [][ /\ \A p \in {0, 1} :
              /\ bra_ordered(progress'[p].lines)
              /\ pc' # "killed" => text_extends(progress[p].lines, progress'[p].lines)
              /\ pc' = "killed" =>
                    /\ text_extends(progress'[p].lines, progress[p].lines)
                    /\ Len(progress'[p].lines) >= progress[p].flushed
        /\ (pc = "loop" /\ pc' # "killed"
                /\ progress'[is_plus].lines # progress[is_plus].lines) =>
              LET old == progress[is_plus].lines
                  new == progress'[is_plus].lines
              IN  /\ old # << >> => old[Len(old)][1] < nu_of(index_k, mu)
                  /\ \A i \in (Len(old) + 1) .. Len(new) : new[i][1] = nu_of(index_k, mu)
      ]_vars

\* An invocation that resumed a terminated one has returned: a log holds lines
\* it found and, after them, lines it added.
NoDoubleCountingMet ==
    /\ pc = "done"
    /\ interrupts # << >>
    /\ \E p \in {0, 1} : \E i \in 1 .. Len(progress[p].lines) :
          \E j \in (i + 1) .. Len(progress[p].lines) :
              /\ progress[p].lines[i][1] < progress[p].lines[j][1]
              /\ << p, progress[p].lines[i][1] >> \notin evaluated
              /\ << p, progress[p].lines[j][1] >> \in evaluated

\* ------------------------------------------ invocations under other settings
\* The temperatures the phonons may be given between two invocations.
Temperatures == 1 .. (MaxTemp + 1)

\* Between two invocations the phonons are given another temperature, another
\* statistics or another kernel; the occupations follow (lines 170-177).  The
\* folder of the phonons, the mesh, the frequencies and the width stay.
ChangeSettings ==
    /\ pc \in {"done", "error", "killed"}
    /\ calls < MaxCalls
    /\ \E temp \in Temperatures, classic \in BOOLEAN, shape \in Kernels \cup {"other"} :
        /\ << temp, classic, shape >> # << temperature, is_classic, broadening_shape >>
        /\ temperature' = temp
        /\ is_classic' = classic
        /\ broadening_shape' = shape
        /\ density' = occupations_of(frequencies, temp, classic)
    /\ UNCHANGED << k_size, frequencies, sigma_in, hot, accumulators, progress, locals,
                    history, cache >>

\* lines 142-148: the folder of the cached fields names the temperature and
\* the statistics.
folder_name(temp, classic) == << temp, IF classic THEN "classic" ELSE "quantum" >>

InitSettings ==
    /\ Init
    /\ hot = << >>

NextSettings ==
    \/ Next
    \/ ChangeSettings

SpecSettings == InitSettings /\ [][NextSettings]_vars

\* The accumulators a replay of the lines of a log builds on top of acc, by
\* the values written in the lines alone.
RECURSIVE line_sums(_, _)
line_sums(acc, lines) ==
    IF lines = << >> THEN acc
    ELSE LET line == Head(lines)
         IN  line_sums([gamma |-> [acc.gamma EXCEPT ![line[1]] = @ + line[4]],
                        ps |-> [acc.ps EXCEPT ![line[1]] = @ + line[5]]],
                       Tail(lines))

whole_lines(lines) == \A i \in 1 .. Len(lines) : Len(lines[i]) = 5

\* C20: the log a pass replays is the one at the path made of the width and
\* the process type, whatever the temperature, the statistics and the kernel
\* of this invocation: every log of whole lines that exists for the pass is
\* replayed by the values of its lines, left as it is, and the pass resumes
\* after the last bra mode it names; no bra mode before that one is evaluated.
\* The folder of the cached fields, for its part, changes with the settings.
SettingsBlindReplay ==
    [][ /\ ChangeSettings =>
              /\ \A p \in {0, 1} : progress_filename(p)' = progress_filename(p)
              /\ (<< temperature, is_classic >>' # << temperature, is_classic >>) =>
                    folder_name(temperature, is_classic)'
                        # folder_name(temperature, is_classic)
        /\ (pc = "open" /\ pc' # "killed" /\ progress[is_plus].exists
                /\ whole_lines(progress[is_plus].lines)) =>
              LET lines == progress[is_plus].lines
                  sums == line_sums([gamma |-> gamma, ps |-> ps], lines)
              IN  /\ gamma' = sums.gamma
                  /\ ps' = sums.ps
                  /\ progress' = progress
                  /\ lines # << >> => read_nu' = lines[Len(lines)][1] + 1
        /\ (pc = "loop" /\ pc' # "killed") =>
              \A e \in evaluated' \ evaluated : e[1] = is_plus /\ e[2] >= read_nu
      ]_vars

\* A second invocation, under settings that give other totals, has returned
\* the totals of the first one and has evaluated no bra mode.
OtherSettingsReplayed ==
    /\ Rerun
    /\ broadening_shape \in Kernels
    /\ evaluated = {}
    /\ previous.evaluated # {}
    /\ gamma = previous.gamma
    /\ gamma # uninterrupted_gamma
====
